---- MODULE Spec2Model ----
(***************************************************************************)
(* A model of formattedcode/output_json.py: write_results streams a        *)
(* codebase (headers, top-level attributes, file records) to a sink as one *)
(* JSON object; get_results returns the same sections as an ordered        *)
(* mapping.  The sink holds the JSON text as a sequence of tokens.  The     *)
(* Python 3 build is modelled (py3 set, files opened in mode 'w'); the     *)
(* codebase collaborator and the streaming encoder follow their contracts. *)
(* An invocation runs statement by statement, and any statement of the     *)
(* with block may raise.                                                   *)
(***************************************************************************)
EXTENDS Integers, Sequences, FiniteSets, TLC

\* ------------------------------------------------------------------ bounds
MaxCalls == 2
MaxFiles == 2
MaxAttrs == 2

\* the attribute keys a codebase may carry, and the paths of its resources
AttrKeys == {"summary", "license_clarity_score", "headers", "files"}
Paths == <<"a.txt", "b.txt", "c.txt", "d.txt">>

VARIABLES
    codebase,         \* the codebase collaborator: headers, attributes, resources
    kwargs,           \* options passed through to OutputPlugin.get_files
    calls,            \* invocations started so far
    op,               \* "idle", "write_results" or "get_results"
    pc,               \* the statement the running invocation is at
    pretty,           \* write_results' pretty argument
    as_list,          \* get_results' as_list argument
    output_file,      \* the sink: how it was given, open or closed, its text
    close_fd,         \* write_results' close_fd local
    s,                \* the jsonstreams.Stream: its scope, whether a comma is due
    codebase_headers, \* write_results' codebase_headers local
    attr_i,           \* position of the attribute loop
    codebase_files,   \* the file sequence: its records and how far it was pulled
    files_list,       \* the list being built from the file sequence
    pending,          \* the entry an s.write call is in the middle of writing
    ret,              \* where the running s.write call returns to
    exc,              \* the exception in flight, where it was raised, the sink then
    trace,            \* what the invocation did: calls made, entries written
    results,          \* get_results' results mapping
    caller,           \* the caller's write to its own sink after the call
    lastWrite,        \* the last document write_results completed
    lastGet           \* the last mapping get_results(as_list=True) returned

vars == <<codebase, kwargs, calls, op, pc, pretty, as_list, output_file, close_fd,
          s, codebase_headers, attr_i, codebase_files, files_list, pending, ret,
          exc, trace, results, caller, lastWrite, lastGet>>

\* ---------------------------------------------------------------- helpers
RECURSIVE Concat(_)
Concat(seqs) == IF seqs = <<>> THEN <<>> ELSE Head(seqs) \o Concat(Tail(seqs))

Reverse(q) == [i \in 1..Len(q) |-> q[Len(q) + 1 - i]]

IsPrefix(p, q) == Len(p) <= Len(q) /\ SubSeq(q, 1, Len(p)) = p

NoRepeat(q) == \A i, j \in 1..Len(q) : i # j => q[i] # q[j]

SeqsUpTo(S, n) == UNION {[1..m -> S] : m \in 0..n}

\* ------------------------------------------------------------ value shapes
\* a scalar member of a JSON object: a string or a number
StrItem(k, v) == [k |-> k, kind |-> "str", str |-> v, num |-> 0]
NumItem(k, n) == [k |-> k, kind |-> "num", str |-> "", num |-> n]

\* the value handed to one top-level entry
HeadersValue(h) == [kind |-> "headers", headers |-> h, str |-> "", files |-> <<>>]
ScalarValue(v) == [kind |-> "scalar", headers |-> <<>>, str |-> v, files |-> <<>>]
ListValue(l) == [kind |-> "list", headers |-> <<>>, str |-> "", files |-> l]
IterValue(l) == [kind |-> "iter", headers |-> <<>>, str |-> "", files |-> l]
NoValue == [kind |-> "none", headers |-> <<>>, str |-> "", files |-> <<>>]

Entry(k, v) == [key |-> k, value |-> v]
NoEntry == Entry("", NoValue)

Keys(entries) == [i \in 1..Len(entries) |-> entries[i].key]


\* Python's OrderedDict: assigning an existing key keeps its place
Put(od, k, v) ==
    IF \E i \in 1..Len(od) : od[i].key = k
    THEN [i \in 1..Len(od) |-> IF od[i].key = k THEN Entry(k, v) ELSE od[i]]
    ELSE Append(od, Entry(k, v))

RECURSIVE Update(_, _)
Update(od, entries) ==
    IF entries = <<>> THEN od
    ELSE Update(Put(od, Head(entries).key, Head(entries).value), Tail(entries))

\* ------------------------------------------------- the codebase collaborator
\* the serialized record of one resource
Record(path) == <<StrItem("path", path)>>

\* codebase.add_files_count_to_current_header(): set the file count in the headers
add_files_count_to_current_header(cb) ==
    LET item == NumItem("files_count", Len(cb.resources))
        h == cb.headers
    IN  [cb EXCEPT !.headers =
            IF \E i \in 1..Len(h) : h[i].k = item.k
            THEN [i \in 1..Len(h) |-> IF h[i].k = item.k THEN item ELSE h[i]]
            ELSE Append(h, item)]

\* codebase.get_headers(): the header mapping as it is now
get_headers(cb) == cb.headers

\* codebase.attributes.to_dict(): the attributes, in their order
to_dict(attributes) ==
    [i \in 1..Len(attributes.items) |->
        Entry(attributes.items[i].k, ScalarValue(attributes.items[i].str))]

\* OutputPlugin.get_files(codebase, **kwargs): the records the options select
get_files(cb, kw) ==
    LET kept == SelectSeq(cb.resources, LAMBDA r : r \notin kw.exclude)
    IN  [i \in 1..Len(kept) |-> Record(kept[i])]

\* ------------------------------------------------------ the streaming encoder
Q(str) == "\"" \o str \o "\""

RECURSIVE Indent(_)
Indent(level) == IF level = 0 THEN "" ELSE "  " \o Indent(level - 1)

KeySep(p) == IF p THEN ": " ELSE ":"

NewLine(p, level) ==
    IF ~p THEN <<>>
    ELSE IF level = 0 THEN <<"\n">> ELSE <<"\n", Indent(level)>>

EncodeItem(it) == IF it.kind = "num" THEN ToString(it.num) ELSE Q(it.str)

EncodeObject(items, p, level) ==
    <<"{">>
    \o Concat([i \in 1..Len(items) |->
          (IF i > 1 THEN <<",">> ELSE <<>>) \o NewLine(p, level + 1)
          \o <<Q(items[i].k), KeySep(p), EncodeItem(items[i])>>])
    \o (IF items = <<>> THEN <<>> ELSE NewLine(p, level))
    \o <<"}">>

EncodeArray(records, p, level) ==
    <<"[">>
    \o Concat([i \in 1..Len(records) |->
          (IF i > 1 THEN <<",">> ELSE <<>>) \o NewLine(p, level + 1)
          \o EncodeObject(records[i], p, level + 1)])
    \o (IF records = <<>> THEN <<>> ELSE NewLine(p, level))
    \o <<"]">>

\* the JSON text of one entry's value, nested one level below the document
Encode(value, p) ==
    CASE value.kind = "headers" -> EncodeObject(value.headers, p, 1)
      [] value.kind = "scalar" -> <<Q(value.str)>>
      [] value.kind = "list" -> EncodeArray(value.files, p, 1)

\* Stream(Type.object, ...): the document's opening brace
StreamOpen == <<"{">>

\* the first half of s.write(key, value): separator, indentation, key
StreamKey(comma, key, p) ==
    (IF comma THEN <<",">> ELSE <<>>) \o NewLine(p, 1) \o <<Q(key), KeySep(p)>>

\* leaving the with block: the closing brace
StreamClose(p) == NewLine(p, 0) \o <<"}">>

\* -------------------------------------------------- reading a document back
IsOpen(tok) == tok \in {"{", "["}
IsClose(tok) == tok \in {"}", "]"}

\* nesting depth of the token at position i
Depth(toks, i) ==
    Cardinality({j \in 1..(i - 1) : IsOpen(toks[j])})
    - Cardinality({j \in 1..(i - 1) : IsClose(toks[j])})

\* positions of the document's top-level keys
TopKeyPositions(toks) ==
    {i \in 1..(Len(toks) - 1) : Depth(toks, i) = 1 /\ toks[i + 1] \in {":", ": "}}

RECURSIVE SortedSeq(_)
SortedSeq(S) ==
    IF S = {} THEN <<>>
    ELSE LET m == CHOOSE x \in S : \A y \in S : x <= y
         IN  <<m>> \o SortedSeq(S \ {m})

\* the top-level keys of a document, in the order they stand in its text
TopKeys(toks) ==
    LET pos == SortedSeq(TopKeyPositions(toks))
    IN  [i \in 1..Len(pos) |-> toks[pos[i]]]

Quoted(keys) == [i \in 1..Len(keys) |-> Q(keys[i])]


\* ------------------------------------------------------------------- state
\* commoncode.system.py3 of the build modelled
py3 == TRUE

NoSink == [kind |-> "none", state |-> "unopened", data |-> <<>>, closes |-> 0]
NoStream == [scope |-> "none", comma |-> FALSE]
NoFiles == [requested |-> FALSE, src |-> <<>>, pos |-> 0]
NoExc == [raised |-> FALSE, at |-> "", data |-> <<>>]
NoTrace == [injections |-> 0, header_gets |-> 0, requests |-> 0,
            pulled |-> <<>>, entries |-> <<>>]
NoDoc == [done |-> FALSE, pretty |-> FALSE, data |-> <<>>, entries |-> <<>>]
NoMapping == [done |-> FALSE, results |-> <<>>]

AttributesSet ==
    {[present |-> FALSE, items |-> <<>>]}
    \cup {[present |-> TRUE,
           items |-> [i \in 1..Len(ks) |-> StrItem(ks[i], ks[i] \o "_value")]] :
          ks \in {q \in SeqsUpTo(AttrKeys, MaxAttrs) : NoRepeat(q)}}

KwargsSet == {[exclude |-> {}], [exclude |-> {Paths[1]}]}

Init ==
    /\ codebase \in [headers : {<<StrItem("tool_version", "1.0")>>},
                     attributes : AttributesSet,
                     resources : {SubSeq(Paths, 1, n) : n \in 0..MaxFiles}]
    /\ kwargs \in KwargsSet
    /\ calls = 0
    /\ op = "idle"
    /\ pc = "idle"
    /\ pretty = FALSE
    /\ as_list = FALSE
    /\ output_file = NoSink
    /\ close_fd = FALSE
    /\ s = NoStream
    /\ codebase_headers = <<>>
    /\ attr_i = 1
    /\ codebase_files = NoFiles
    /\ files_list = <<>>
    /\ pending = NoEntry
    /\ ret = ""
    /\ exc = NoExc
    /\ trace = NoTrace
    /\ results = <<>>
    /\ caller = "none"
    /\ lastWrite = NoDoc
    /\ lastGet = NoMapping

\* ------------------------------------------------------------ write_results
\* the statements of the with block, in program order
\* a build that retrieves the headers before the file count is injected
WriteOrder_headers_first ==
    <<"stream", "get_headers", "count", "write_headers", "attributes",
      "get_files", "list", "write_files", "exit">>

WriteOrder ==
    <<"stream", "count", "get_headers", "write_headers", "attributes",
      "get_files", "list", "write_files", "exit">>

After(order, label) == order[(CHOOSE i \in 1..Len(order) : order[i] = label) + 1]

\* builds that never, or always, ask the stream to close the sink
CloseFd_never(kind) == FALSE
CloseFd_always(kind) == TRUE

\* close_fd: set only when write_results opened the file itself
CloseFd(kind) == kind = "path"

\* a build that walks the attributes back to front
AttributeItems_reversed(cb) ==
    IF cb.attributes.present THEN Reverse(to_dict(cb.attributes)) ELSE <<>>

\* what the attribute loop iterates over
AttributeItems(cb) == IF cb.attributes.present THEN to_dict(cb.attributes) ELSE <<>>

\* a process_codebase call: write_results(codebase, output_file, pretty, **kwargs)
W_Call ==
    /\ op = "idle"
    /\ calls < MaxCalls
    /\ \E kind \in {"path", "sink"}, p \in BOOLEAN :
        /\ pretty' = p
        /\ output_file' = [kind |-> kind,
                           state |-> IF kind = "sink" THEN "open" ELSE "unopened",
                           data |-> <<>>, closes |-> 0]
    /\ calls' = calls + 1
    /\ op' = "write_results"
    /\ pc' = "open"
    /\ UNCHANGED <<codebase, kwargs, as_list, close_fd, s, codebase_headers, attr_i,
                   codebase_files, files_list, pending, ret, exc, trace, results,
                   caller, lastWrite, lastGet>>

\* close_fd = False; if isinstance(output_file, string_types): open it
W_Open ==
    /\ op = "write_results" /\ pc = "open"
    /\ close_fd' = CloseFd(output_file.kind)
    /\ output_file' = IF output_file.kind = "path"
                      THEN [output_file EXCEPT !.state = "open", !.data = <<>>]
                      ELSE output_file
    /\ pc' = "stream"
    /\ UNCHANGED <<codebase, kwargs, calls, op, pretty, as_list, s, codebase_headers,
                   attr_i, codebase_files, files_list, pending, ret, exc, trace,
                   results, caller, lastWrite, lastGet>>

\* open(output_file, mode) raises: nothing was opened, the error reaches the caller
W_OpenFails ==
    /\ op = "write_results" /\ pc = "open"
    /\ output_file.kind = "path"
    /\ exc' = [raised |-> TRUE, at |-> "open", data |-> <<>>]
    /\ pc' = "done"
    /\ UNCHANGED <<codebase, kwargs, calls, op, pretty, as_list, output_file, close_fd,
                   s, codebase_headers, attr_i, codebase_files, files_list, pending,
                   ret, trace, results, caller, lastWrite, lastGet>>

\* with jsonstreams.Stream(Type.object, fd=output_file, close_fd=close_fd, ...) as s
W_Stream ==
    /\ op = "write_results" /\ pc = "stream"
    /\ output_file' = [output_file EXCEPT !.data = @ \o StreamOpen]
    /\ s' = [scope |-> "open", comma |-> FALSE]
    /\ pc' = After(WriteOrder, "stream")
    /\ UNCHANGED <<codebase, kwargs, calls, op, pretty, as_list, close_fd,
                   codebase_headers, attr_i, codebase_files, files_list, pending, ret,
                   exc, trace, results, caller, lastWrite, lastGet>>

\* codebase.add_files_count_to_current_header()
W_AddFilesCount ==
    /\ op = "write_results" /\ pc = "count"
    /\ codebase' = add_files_count_to_current_header(codebase)
    /\ trace' = [trace EXCEPT !.injections = @ + 1]
    /\ pc' = After(WriteOrder, "count")
    /\ UNCHANGED <<kwargs, calls, op, pretty, as_list, output_file, close_fd, s,
                   codebase_headers, attr_i, codebase_files, files_list, pending, ret,
                   exc, results, caller, lastWrite, lastGet>>

\* codebase_headers = codebase.get_headers()
W_GetHeaders ==
    /\ op = "write_results" /\ pc = "get_headers"
    /\ codebase_headers' = get_headers(codebase)
    /\ trace' = [trace EXCEPT !.header_gets = @ + 1]
    /\ pc' = After(WriteOrder, "get_headers")
    /\ UNCHANGED <<codebase, kwargs, calls, op, pretty, as_list, output_file, close_fd,
                   s, attr_i, codebase_files, files_list, pending, ret, exc, results,
                   caller, lastWrite, lastGet>>

\* s.write(key, value), first half: the key reaches the sink
BeginWrite(key, value, back) ==
    /\ output_file' = [output_file EXCEPT !.data = @ \o StreamKey(s.comma, key, pretty)]
    /\ pending' = Entry(key, value)
    /\ ret' = back
    /\ pc' = "value"

\* s.write('headers', codebase_headers)
W_WriteHeaders ==
    /\ op = "write_results" /\ pc = "write_headers"
    /\ BeginWrite("headers", HeadersValue(codebase_headers),
                  After(WriteOrder, "write_headers"))
    /\ UNCHANGED <<codebase, kwargs, calls, op, pretty, as_list, close_fd, s,
                   codebase_headers, attr_i, codebase_files, files_list, exc, trace,
                   results, caller, lastWrite, lastGet>>

\* s.write(key, value), second half: the encoded value reaches the sink
W_WriteValue ==
    /\ op = "write_results" /\ pc = "value"
    /\ output_file' = [output_file EXCEPT !.data = @ \o Encode(pending.value, pretty)]
    /\ s' = [s EXCEPT !.comma = TRUE]
    /\ trace' = [trace EXCEPT !.entries = Append(@, pending)]
    /\ pending' = NoEntry
    /\ pc' = ret
    /\ ret' = ""
    /\ UNCHANGED <<codebase, kwargs, calls, op, pretty, as_list, close_fd,
                   codebase_headers, attr_i, codebase_files, files_list, exc, results,
                   caller, lastWrite, lastGet>>

\* if codebase.attributes: for key, value in ...to_dict().items(): s.write(key, value)
W_Attributes ==
    /\ op = "write_results" /\ pc = "attributes"
    /\ \/ /\ attr_i <= Len(AttributeItems(codebase))
          /\ BeginWrite(AttributeItems(codebase)[attr_i].key,
                        AttributeItems(codebase)[attr_i].value, "attributes")
          /\ attr_i' = attr_i + 1
       \/ /\ attr_i > Len(AttributeItems(codebase))
          /\ pc' = After(WriteOrder, "attributes")
          /\ UNCHANGED <<output_file, pending, ret, attr_i>>
    /\ UNCHANGED <<codebase, kwargs, calls, op, pretty, as_list, close_fd, s,
                   codebase_headers, codebase_files, files_list, exc, trace, results,
                   caller, lastWrite, lastGet>>

\* codebase_files = OutputPlugin.get_files(codebase, **kwargs)
W_GetFiles ==
    /\ op = "write_results" /\ pc = "get_files"
    /\ codebase_files' = [requested |-> TRUE, src |-> get_files(codebase, kwargs),
                          pos |-> 0]
    /\ files_list' = <<>>
    /\ trace' = [trace EXCEPT !.requests = @ + 1]
    /\ pc' = After(WriteOrder, "get_files")
    /\ UNCHANGED <<codebase, kwargs, calls, op, pretty, as_list, output_file, close_fd,
                   s, codebase_headers, attr_i, pending, ret, exc, results, caller,
                   lastWrite, lastGet>>

\* a build whose traversal drops the record after the one it takes
Pull_skip(it) == [record |-> it.src[it.pos + 1], rest |-> [it EXCEPT !.pos = @ + 2]]

\* one next() on the file sequence
Pull(it) == [record |-> it.src[it.pos + 1], rest |-> [it EXCEPT !.pos = @ + 1]]

\* if py3: codebase_files = list(codebase_files)
W_List ==
    /\ op = "write_results" /\ pc = "list"
    /\ \/ /\ py3 /\ codebase_files.pos < Len(codebase_files.src)
          /\ files_list' = Append(files_list, Pull(codebase_files).record)
          /\ codebase_files' = Pull(codebase_files).rest
          /\ trace' = [trace EXCEPT !.pulled = Append(@, Pull(codebase_files).record)]
          /\ pc' = pc
       \/ /\ py3 /\ codebase_files.pos >= Len(codebase_files.src)
          /\ pc' = After(WriteOrder, "list")
          /\ UNCHANGED <<files_list, codebase_files, trace>>
    /\ UNCHANGED <<codebase, kwargs, calls, op, pretty, as_list, output_file, close_fd,
                   s, codebase_headers, attr_i, pending, ret, exc, results, caller,
                   lastWrite, lastGet>>

\* a build that writes the files entry only when there are records
W_WriteFiles_skip_empty ==
    /\ op = "write_results" /\ pc = "write_files"
    /\ IF files_list = <<>>
       THEN /\ pc' = After(WriteOrder, "write_files")
            /\ UNCHANGED <<output_file, pending, ret>>
       ELSE BeginWrite("files", ListValue(files_list), After(WriteOrder, "write_files"))
    /\ UNCHANGED <<codebase, kwargs, calls, op, pretty, as_list, close_fd, s,
                   codebase_headers, attr_i, codebase_files, files_list, exc, trace,
                   results, caller, lastWrite, lastGet>>

\* s.write('files', codebase_files)
W_WriteFiles ==
    /\ op = "write_results" /\ pc = "write_files"
    /\ BeginWrite("files", ListValue(files_list), After(WriteOrder, "write_files"))
    /\ UNCHANGED <<codebase, kwargs, calls, op, pretty, as_list, close_fd, s,
                   codebase_headers, attr_i, codebase_files, files_list, exc, trace,
                   results, caller, lastWrite, lastGet>>

\* a build that answers a failing file sequence by requesting it again
W_Raise_retry ==
    /\ op = "write_results"
    /\ pc \in {"count", "get_headers", "write_headers", "value", "attributes",
               "get_files", "list", "write_files"}
    /\ exc' = [raised |-> TRUE, at |-> pc, data |-> output_file.data]
    /\ pc' = IF pc = "list" THEN "get_files" ELSE "exit"
    /\ UNCHANGED <<codebase, kwargs, calls, op, pretty, as_list, output_file, close_fd,
                   s, codebase_headers, attr_i, codebase_files, files_list, pending,
                   ret, trace, results, caller, lastWrite, lastGet>>

\* a statement of the with block raises: control leaves the block with the error
W_Raise ==
    /\ op = "write_results"
    /\ pc \in {"count", "get_headers", "write_headers", "value", "attributes",
               "get_files", "list", "write_files"}
    /\ exc' = [raised |-> TRUE, at |-> pc, data |-> output_file.data]
    /\ pc' = "exit"
    /\ UNCHANGED <<codebase, kwargs, calls, op, pretty, as_list, output_file, close_fd,
                   s, codebase_headers, attr_i, codebase_files, files_list, pending,
                   ret, trace, results, caller, lastWrite, lastGet>>

\* Stream.__exit__: close the object scope, close the file when close_fd is set;
\* an error in flight goes on to the caller
W_Exit ==
    /\ op = "write_results" /\ pc = "exit"
    /\ s' = [s EXCEPT !.scope = "closed"]
    /\ output_file' =
          [output_file EXCEPT
              !.data = @ \o StreamClose(pretty),
              !.state = IF close_fd THEN "closed" ELSE @,
              !.closes = IF close_fd THEN @ + 1 ELSE @]
    /\ pc' = "done"
    /\ UNCHANGED <<codebase, kwargs, calls, op, pretty, as_list, close_fd,
                   codebase_headers, attr_i, codebase_files, files_list, pending, ret,
                   exc, trace, results, caller, lastWrite, lastGet>>

\* after the call the caller writes to the sink it had handed in
CallerWrite ==
    /\ op = "write_results" /\ pc = "done"
    /\ output_file.kind = "sink"
    /\ caller = "none"
    /\ IF output_file.state = "open"
       THEN /\ output_file' = [output_file EXCEPT !.data = @ \o <<"\n">>]
            /\ caller' = "written"
       ELSE /\ caller' = "failed"
            /\ UNCHANGED output_file
    /\ UNCHANGED <<codebase, kwargs, calls, op, pc, pretty, as_list, close_fd, s,
                   codebase_headers, attr_i, codebase_files, files_list, pending, ret,
                   exc, trace, results, lastWrite, lastGet>>

\* the invocation is over: its locals are gone, the codebase stays
W_Return ==
    /\ op = "write_results" /\ pc = "done"
    /\ lastWrite' = IF ~exc.raised /\ caller = "none"
                    THEN [done |-> TRUE, pretty |-> pretty, data |-> output_file.data,
                          entries |-> trace.entries]
                    ELSE lastWrite
    /\ op' = "idle"
    /\ pc' = "idle"
    /\ pretty' = FALSE
    /\ output_file' = NoSink
    /\ close_fd' = FALSE
    /\ s' = NoStream
    /\ codebase_headers' = <<>>
    /\ attr_i' = 1
    /\ codebase_files' = NoFiles
    /\ files_list' = <<>>
    /\ pending' = NoEntry
    /\ ret' = ""
    /\ exc' = NoExc
    /\ trace' = NoTrace
    /\ caller' = "none"
    /\ UNCHANGED <<codebase, kwargs, calls, as_list, results, lastGet>>

\* --------------------------------------------------------------- get_results
\* the statements of get_results, in program order
GetOrder == <<"g_count", "g_headers", "g_update", "g_files", "g_list", "g_set", "g_return">>

\* a call of get_results(codebase, as_list, **kwargs)
G_Call ==
    /\ op = "idle"
    /\ calls < MaxCalls
    /\ as_list' \in BOOLEAN
    /\ calls' = calls + 1
    /\ op' = "get_results"
    /\ pc' = "g_count"
    /\ UNCHANGED <<codebase, kwargs, pretty, output_file, close_fd, s, codebase_headers,
                   attr_i, codebase_files, files_list, pending, ret, exc, trace,
                   results, caller, lastWrite, lastGet>>

\* codebase.add_files_count_to_current_header()
G_AddFilesCount ==
    /\ op = "get_results" /\ pc = "g_count"
    /\ codebase' = add_files_count_to_current_header(codebase)
    /\ trace' = [trace EXCEPT !.injections = @ + 1]
    /\ pc' = After(GetOrder, "g_count")
    /\ UNCHANGED <<kwargs, calls, op, pretty, as_list, output_file, close_fd, s,
                   codebase_headers, attr_i, codebase_files, files_list, pending, ret,
                   exc, results, caller, lastWrite, lastGet>>

\* results = OrderedDict([('headers', codebase.get_headers())])
G_GetHeaders ==
    /\ op = "get_results" /\ pc = "g_headers"
    /\ results' = <<Entry("headers", HeadersValue(get_headers(codebase)))>>
    /\ trace' = [trace EXCEPT !.header_gets = @ + 1]
    /\ pc' = After(GetOrder, "g_headers")
    /\ UNCHANGED <<codebase, kwargs, calls, op, pretty, as_list, output_file, close_fd,
                   s, codebase_headers, attr_i, codebase_files, files_list, pending,
                   ret, exc, caller, lastWrite, lastGet>>

\* a build of get_results that leaves the attributes out
G_Update_skip ==
    /\ op = "get_results" /\ pc = "g_update"
    /\ pc' = After(GetOrder, "g_update")
    /\ UNCHANGED <<codebase, kwargs, calls, op, pretty, as_list, output_file, close_fd,
                   s, codebase_headers, attr_i, codebase_files, files_list, pending,
                   ret, exc, trace, results, caller, lastWrite, lastGet>>

\* if codebase.attributes: results.update(codebase.attributes.to_dict())
G_Update ==
    /\ op = "get_results" /\ pc = "g_update"
    /\ results' = Update(results, AttributeItems(codebase))
    /\ pc' = After(GetOrder, "g_update")
    /\ UNCHANGED <<codebase, kwargs, calls, op, pretty, as_list, output_file, close_fd,
                   s, codebase_headers, attr_i, codebase_files, files_list, pending,
                   ret, exc, trace, caller, lastWrite, lastGet>>

\* files = OutputPlugin.get_files(codebase, **kwargs)
G_GetFiles ==
    /\ op = "get_results" /\ pc = "g_files"
    /\ codebase_files' = [requested |-> TRUE, src |-> get_files(codebase, kwargs),
                          pos |-> 0]
    /\ files_list' = <<>>
    /\ trace' = [trace EXCEPT !.requests = @ + 1]
    /\ pc' = After(GetOrder, "g_files")
    /\ UNCHANGED <<codebase, kwargs, calls, op, pretty, as_list, output_file, close_fd,
                   s, codebase_headers, attr_i, pending, ret, exc, results, caller,
                   lastWrite, lastGet>>

\* if as_list: files = list(files)
G_List ==
    /\ op = "get_results" /\ pc = "g_list"
    /\ \/ /\ as_list /\ codebase_files.pos < Len(codebase_files.src)
          /\ files_list' = Append(files_list, Pull(codebase_files).record)
          /\ codebase_files' = Pull(codebase_files).rest
          /\ trace' = [trace EXCEPT !.pulled = Append(@, Pull(codebase_files).record)]
          /\ pc' = pc
       \/ /\ ~as_list \/ codebase_files.pos >= Len(codebase_files.src)
          /\ pc' = After(GetOrder, "g_list")
          /\ UNCHANGED <<files_list, codebase_files, trace>>
    /\ UNCHANGED <<codebase, kwargs, calls, op, pretty, as_list, output_file, close_fd,
                   s, codebase_headers, attr_i, pending, ret, exc, results, caller,
                   lastWrite, lastGet>>

\* results['files'] = files
G_SetFiles ==
    /\ op = "get_results" /\ pc = "g_set"
    /\ results' = Put(results, "files",
                      IF as_list THEN ListValue(files_list)
                      ELSE IterValue(codebase_files.src))
    /\ pc' = After(GetOrder, "g_set")
    /\ UNCHANGED <<codebase, kwargs, calls, op, pretty, as_list, output_file, close_fd,
                   s, codebase_headers, attr_i, codebase_files, files_list, pending,
                   ret, exc, trace, caller, lastWrite, lastGet>>

\* a statement of get_results raises: the error reaches the caller, nothing is returned
G_Raise ==
    /\ op = "get_results"
    /\ pc \in {"g_count", "g_headers", "g_update", "g_files", "g_list", "g_set"}
    /\ exc' = [raised |-> TRUE, at |-> pc, data |-> <<>>]
    /\ pc' = "g_return"
    /\ UNCHANGED <<codebase, kwargs, calls, op, pretty, as_list, output_file, close_fd,
                   s, codebase_headers, attr_i, codebase_files, files_list, pending,
                   ret, trace, results, caller, lastWrite, lastGet>>

\* return results (TRACE is off); the invocation is over
G_Return ==
    /\ op = "get_results" /\ pc = "g_return"
    /\ lastGet' = IF ~exc.raised /\ as_list
                  THEN [done |-> TRUE, results |-> results]
                  ELSE lastGet
    /\ op' = "idle"
    /\ pc' = "idle"
    /\ as_list' = FALSE
    /\ codebase_files' = NoFiles
    /\ files_list' = <<>>
    /\ exc' = NoExc
    /\ trace' = NoTrace
    /\ results' = <<>>
    /\ UNCHANGED <<codebase, kwargs, calls, pretty, output_file, close_fd, s,
                   codebase_headers, attr_i, pending, ret, caller, lastWrite>>

Next ==
    \/ W_Call \/ W_Open \/ W_OpenFails \/ W_Stream \/ W_AddFilesCount
    \/ W_GetHeaders \/ W_WriteHeaders \/ W_WriteValue \/ W_Attributes
    \/ W_GetFiles \/ W_List \/ W_WriteFiles \/ W_Raise \/ W_Exit
    \/ CallerWrite \/ W_Return
    \/ G_Call \/ G_AddFilesCount \/ G_GetHeaders \/ G_Update \/ G_GetFiles
    \/ G_List \/ G_SetFiles \/ G_Raise \/ G_Return

Spec == Init /\ [][Next]_vars


\* ------------------------------------------------------------------ claims
Writing == op = "write_results"
WriteDone == Writing /\ pc = "done"
WriteReturned == WriteDone /\ ~exc.raised
GetReturned == op = "get_results" /\ pc = "g_return" /\ ~exc.raised

\* the attribute keys of a codebase, as the collaborator yields them
AttributeKeys(cb) ==
    IF cb.attributes.present
    THEN [i \in 1..Len(cb.attributes.items) |-> cb.attributes.items[i].k]
    ELSE <<>>

ExpectedKeys(cb) == <<"headers">> \o AttributeKeys(cb) \o <<"files">>

\* the records the options select from the codebase
Produced ==
    LET kept == SelectSeq(codebase.resources, LAMBDA r : r \notin kwargs.exclude)
    IN  [i \in 1..Len(kept) |-> <<StrItem("path", kept[i])>>]

HasCount(h) == \E i \in 1..Len(h) : h[i].k = "files_count"
CountOf(h) == h[CHOOSE i \in 1..Len(h) : h[i].k = "files_count"].num

\* C1: the top-level keys on the sink are always the first keys of: headers, the
\* attribute keys in the collaborator's order, files; a call that returns has
\* written exactly these, so with no attributes exactly headers, files.
C1_KeyOrder ==
    Writing =>
        /\ IsPrefix(TopKeys(output_file.data), Quoted(ExpectedKeys(codebase)))
        /\ WriteReturned =>
              /\ TopKeys(output_file.data) = Quoted(ExpectedKeys(codebase))
              /\ Keys(trace.entries) = ExpectedKeys(codebase)
              /\ AttributeKeys(codebase) = <<>> =>
                    TopKeys(output_file.data) = <<Q("headers"), Q("files")>>

C1_Witness ==
    /\ WriteReturned
    /\ Len(AttributeKeys(codebase)) = 2
    /\ TopKeys(output_file.data) = Quoted(ExpectedKeys(codebase))

\* C2: a sink write_results opened from a path is not closed while the call runs
\* and is closed exactly once when the call is over, whether it returned or a
\* statement of the with block raised.
C2_OwnedSinkClosedOnce ==
    (Writing /\ output_file.kind = "path") =>
        /\ output_file.closes <= 1
        /\ pc \in {"stream", "count", "get_headers", "write_headers", "value",
                   "attributes", "get_files", "list", "write_files", "exit"} =>
              output_file.state = "open" /\ output_file.closes = 0
        /\ (pc = "done" /\ exc.at # "open") =>
              output_file.state = "closed" /\ output_file.closes = 1

C2_Witness ==
    /\ WriteDone /\ output_file.kind = "path"
    /\ exc.raised /\ exc.at = "list" /\ Len(trace.pulled) = 1
    /\ output_file.state = "closed" /\ output_file.closes = 1

\* C3: a sink handed in already open is never closed by write_results, on return
\* or on error, and the caller's write after the call succeeds.
C3_GivenSinkLeftOpen ==
    (Writing /\ output_file.kind = "sink") =>
        /\ output_file.state = "open"
        /\ output_file.closes = 0
        /\ caller # "failed"

C3_Witness ==
    /\ WriteDone /\ output_file.kind = "sink"
    /\ caller = "written"
    /\ output_file.state = "open"

\* C4: in a document write_results completed, the file count in the headers
\* equals the number of records in the files array, for every choice of options.
C4_CountEqualsFilesWritten ==
    WriteReturned =>
        LET h == trace.entries[1].value.headers
            f == trace.entries[Len(trace.entries)].value.files
        IN  HasCount(h) /\ CountOf(h) = Len(f)

\* C5: in an invocation of write_results or get_results the file count is
\* injected at most once; it has been injected when the headers are retrieved and
\* when any key reaches the sink, and exactly once when the invocation returns.
C5_CountInjectedOnceBeforeHeaders ==
    /\ trace.injections <= 1
    /\ trace.header_gets > 0 => trace.injections = 1
    /\ (Writing /\ TopKeys(output_file.data) # <<>>) => trace.injections = 1
    /\ (Writing /\ trace.header_gets > 0) => HasCount(codebase_headers)
    /\ (WriteReturned \/ GetReturned) =>
          trace.injections = 1 /\ trace.header_gets = 1

C5_Witness ==
    /\ GetReturned /\ lastWrite.done
    /\ trace.injections = 1 /\ trace.header_gets = 1

\* the document has a top-level files key whose value opens an array
HasFilesArray(toks) ==
    \E i \in TopKeyPositions(toks) :
        /\ toks[i] = Q("files")
        /\ i + 2 <= Len(toks)
        /\ toks[i + 2] = "["

C7_SequenceErrorPropagates ==
    (Writing /\ exc.raised /\ exc.at = "list") =>
        /\ pc \in {"exit", "done"}
        /\ IsPrefix(exc.data, output_file.data)
        /\ TopKeys(output_file.data) = TopKeys(exc.data)
        /\ trace.requests = 1
        /\ Len(trace.entries) = Len(TopKeys(exc.data))

C7_Witness ==
    /\ WriteDone /\ exc.raised /\ exc.at = "list"
    /\ Len(trace.pulled) = 1 /\ Len(Produced) = 2
    /\ IsPrefix(exc.data, output_file.data)

\* C8: a write_results call that returns, after an earlier one that returned with
\* the same render mode on the same codebase, has put the same text on its sink.
C8_SecondWriteIdentical ==
    (WriteReturned /\ caller = "none" /\ lastWrite.done /\ lastWrite.pretty = pretty) =>
        output_file.data = lastWrite.data

C8_Witness ==
    /\ WriteReturned /\ caller = "none"
    /\ lastWrite.done /\ lastWrite.pretty = pretty /\ pretty
    /\ Len(Produced) = 2
    /\ output_file.data = lastWrite.data

\* get_results(as_list=True) and write_results, on the same codebase, agree
SameEntries ==
    /\ (WriteReturned /\ lastGet.done) => lastGet.results = trace.entries
    /\ (GetReturned /\ as_list /\ lastWrite.done) => results = lastWrite.entries

\* C9 as stated: for every codebase the mapping get_results(as_list=True) returns
\* has the keys and values of the entries write_results writes.
C9_SameEntriesAlways == SameEntries

NoKeyCollision(cb) ==
    \A i \in 1..Len(AttributeKeys(cb)) : AttributeKeys(cb)[i] \notin {"headers", "files"}

\* C9: for every codebase none of whose attribute keys is headers or files, the
\* mapping get_results(as_list=True) returns has the keys and values of the
\* entries write_results writes: headers, the attributes in order, files last.
C9_SameEntriesWithoutCollision ==
    NoKeyCollision(codebase) =>
        /\ SameEntries
        /\ (GetReturned /\ as_list) =>
              /\ Keys(results) = ExpectedKeys(codebase)
              /\ results[Len(results)].value = ListValue(Produced)

C9_Witness ==
    /\ NoKeyCollision(codebase)
    /\ Len(AttributeKeys(codebase)) = 2
    /\ WriteReturned /\ lastGet.done
    /\ lastGet.results = trace.entries

\* C10: within one write_results invocation the file sequence is requested at most
\* once and pulled front to back, each record once; the files array holds the
\* records in the order they were produced.
C10_SinglePassInOrder ==
    Writing =>
        /\ trace.requests <= 1
        /\ codebase_files.pos = Len(trace.pulled)
        /\ IsPrefix(trace.pulled, Produced)
        /\ files_list = trace.pulled
        /\ WriteReturned =>
              /\ trace.requests = 1
              /\ trace.pulled = Produced
              /\ trace.entries[Len(trace.entries)].value = ListValue(Produced)
              /\ \E i \in TopKeyPositions(output_file.data) :
                    LET a == EncodeArray(Produced, pretty, 1)
                    IN  SubSeq(output_file.data, i + 2, i + 1 + Len(a)) = a

C10_Witness ==
    /\ WriteReturned
    /\ Len(trace.pulled) = 2
    /\ trace.pulled = Produced

====
